---------------------------- MODULE Spec2Model ----------------------------
(***************************************************************************)
(* webclan: the upload / execute / list / download / cleanup service of    *)
(* src/server/app.py.  The validators and codecs work on strings as        *)
(* sequences of one-character strings and on contents as sequences of      *)
(* bytes.  In the service's state a name (identifier, file name, path      *)
(* component) is a string value and Chars gives its characters; a path is  *)
(* the sequence of its components and str(path) joins them with "/".       *)
(***************************************************************************)
EXTENDS Integers, Sequences, FiniteSets, TLC

(***************************************************************************)
(* Bounds of the model.                                                    *)
(***************************************************************************)
\* longest stem of a generated file name (an extension is appended to it)
MaxStemLen == 2
\* longest generated argument string
MaxArgLen == 2
\* most filler arguments on each side of the generated argument
MaxFill == 1
\* longest generated binary name
MaxBinLen == 2
\* server processes, each one event loop running the handlers
NumWorkers == 2
\* longest content of a round trip, in bytes
MaxDataLen == 3

(***************************************************************************)
(* Python string primitives.                                               *)
(***************************************************************************)
Rep(c, n) == [i \in 1..n |-> c]

StrOfLen(alphabet, n) == [1..n -> alphabet]

StrUpTo(alphabet, n) == UNION {StrOfLen(alphabet, k) : k \in 0..n}

StartsWith(s, prefix) ==
    /\ Len(prefix) <= Len(s)
    /\ SubSeq(s, 1, Len(prefix)) = prefix

EndsWith(s, suffix) ==
    /\ Len(suffix) <= Len(s)
    /\ SubSeq(s, Len(s) - Len(suffix) + 1, Len(s)) = suffix

\* `sub in s`
Contains(s, sub) ==
    \E i \in 1..(Len(s) - Len(sub) + 1) : SubSeq(s, i, i + Len(sub) - 1) = sub

\* s.replace(old, ""), left to right, non-overlapping
RECURSIVE RemoveAll(_, _)
RemoveAll(s, old) ==
    IF s = <<>> THEN <<>>
    ELSE IF StartsWith(s, old) THEN RemoveAll(SubSeq(s, Len(old) + 1, Len(s)), old)
    ELSE <<Head(s)>> \o RemoveAll(Tail(s), old)

RECURSIVE LStrip(_, _)
LStrip(s, chars) ==
    IF s # <<>> /\ Head(s) \in chars THEN LStrip(Tail(s), chars) ELSE s

RECURSIVE RStrip(_, _)
RStrip(s, chars) ==
    IF s # <<>> /\ s[Len(s)] \in chars THEN RStrip(SubSeq(s, 1, Len(s) - 1), chars) ELSE s

\* s.strip(chars)
Strip(s, chars) == RStrip(LStrip(s, chars), chars)

LowerLetters ==
    {"a","b","c","d","e","f","g","h","i","j","k","l","m",
     "n","o","p","q","r","s","t","u","v","w","x","y","z"}

UpperLetters ==
    {"A","B","C","D","E","F","G","H","I","J","K","L","M",
     "N","O","P","Q","R","S","T","U","V","W","X","Y","Z"}

Digits == {"0","1","2","3","4","5","6","7","8","9"}

HexDigits == Digits \cup {"a","b","c","d","e","f","A","B","C","D","E","F"}

Whitespace == {" ", "\t", "\n", "\r"}

UpperOf ==
    [c \in LowerLetters |->
        CASE c = "a" -> "A" [] c = "b" -> "B" [] c = "c" -> "C" [] c = "d" -> "D"
          [] c = "e" -> "E" [] c = "f" -> "F" [] c = "g" -> "G" [] c = "h" -> "H"
          [] c = "i" -> "I" [] c = "j" -> "J" [] c = "k" -> "K" [] c = "l" -> "L"
          [] c = "m" -> "M" [] c = "n" -> "N" [] c = "o" -> "O" [] c = "p" -> "P"
          [] c = "q" -> "Q" [] c = "r" -> "R" [] c = "s" -> "S" [] c = "t" -> "T"
          [] c = "u" -> "U" [] c = "v" -> "V" [] c = "w" -> "W" [] c = "x" -> "X"
          [] c = "y" -> "Y" [] OTHER -> "Z"]

\* s.lower()
LowerChar(c) ==
    IF c \in UpperLetters THEN CHOOSE l \in LowerLetters : UpperOf[l] = c ELSE c

Lower(s) == [i \in 1..Len(s) |-> LowerChar(s[i])]

\* re.match(r'^[class]+$', s): `$` also matches just before one final newline
MatchesClassPlus(s, class) ==
    LET core == IF s # <<>> /\ s[Len(s)] = "\n" THEN SubSeq(s, 1, Len(s) - 1) ELSE s
    IN  /\ core # <<>>
        /\ \A i \in 1..Len(core) : core[i] \in class


(***************************************************************************)
(* Program constants (app.py lines 15-19).                                 *)
(***************************************************************************)
WORK_DIR == <<"webclan", "work">>

BIN_DIR == <<"webclan", "unix", "bin">>

MAX_FILE_SIZE == 100 * 1024 * 1024

COMMAND_TIMEOUT == 300

ALLOWED_EXTENSION == <<".","c","h","a">>

(***************************************************************************)
(* Names.                                                                  *)
(***************************************************************************)
\* the identifiers uuid.uuid4() may return: canonical version-4 strings
U1 == "11111111-1111-4111-8111-111111111111"

U2 == "22222222-2222-4222-a222-222222222222"

UuidPool == {U1, U2}

U1Chars == Rep("1", 8) \o <<"-">> \o Rep("1", 4) \o <<"-", "4">> \o Rep("1", 3)
              \o <<"-", "8">> \o Rep("1", 3) \o <<"-">> \o Rep("1", 12)

U2Chars == Rep("2", 8) \o <<"-">> \o Rep("2", 4) \o <<"-", "4">> \o Rep("2", 3)
              \o <<"-", "a">> \o Rep("2", 3) \o <<"-">> \o Rep("2", 12)

\* other spellings of U1, and strings that are no UUID
U1Hex == "11111111111141118111111111111111"

U1Braced == "{11111111-1111-4111-8111-111111111111}"

U1Urn == "urn:uuid:11111111-1111-4111-8111-111111111111"

NotAUuid == "not-a-uuid"

UpLevel == ".."

\* the directory names next to a workspace that start with the workspace's
U1x == "11111111-1111-4111-8111-111111111111x"

U2x == "22222222-2222-4222-a222-222222222222x"

\* the identifiers requests carry in the service runs, and all spellings
IdInputs == UuidPool \cup {U1Hex, NotAUuid}

IdSpellings == IdInputs \cup {U1Braced, U1Urn, UpLevel}

\* every name with its characters
Spelling ==
    {<<U1, U1Chars>>, <<U2, U2Chars>>,
     <<U1x, U1Chars \o <<"x">> >>, <<U2x, U2Chars \o <<"x">> >>,
     <<U1Hex, RemoveAll(U1Chars, <<"-">>)>>,
     <<U1Braced, <<"{">> \o U1Chars \o <<"}">> >>,
     <<U1Urn, <<"u","r","n",":","u","u","i","d",":">> \o U1Chars>>,
     <<NotAUuid, <<"n","o","t","-","a","-","u","u","i","d">> >>,
     <<"webclan", <<"w","e","b","c","l","a","n">>>>,
     <<"work", <<"w","o","r","k">>>>,
     <<"workx", <<"w","o","r","k","x">>>>,
     <<"unix", <<"u","n","i","x">>>>,
     <<"bin", <<"b","i","n">>>>,
     <<"binx", <<"b","i","n","x">>>>,
     <<"etc", <<"e","t","c">>>>,
     <<"passwd", <<"p","a","s","s","w","d">>>>,
     <<"tool", <<"t","o","o","l">>>>,
     <<"chip.cha", <<"c","h","i","p",".","c","h","a">>>>,
     <<"chip.txt", <<"c","h","i","p",".","t","x","t">>>>,
     <<"lnk", <<"l","n","k">>>>,
     <<"freq", <<"f","r","e","q">>>>,
     <<"kwal", <<"k","w","a","l">>>>,
     <<"evil", <<"e","v","i","l">>>>,
     <<"away", <<"a","w","a","y">>>>,
     <<"subd", <<"s","u","b","d">>>>,
     <<"nope", <<"n","o","p","e">>>>,
     <<"../freq", <<".",".","/","f","r","e","q">>>>,
     <<";", <<";">>>>,
     <<"..", <<".",".">>>>}

CharsOf == [n \in {pr[1] : pr \in Spelling} |-> (CHOOSE pr \in Spelling : pr[1] = n)[2]]

Chars(name) == CharsOf[name]

\* the name with the given characters
NameOf(chars) == CHOOSE n \in DOMAIN CharsOf : CharsOf[n] = chars

(***************************************************************************)
(* uuid.UUID(hex) as called by the identifier checks: 'urn:' and 'uuid:'   *)
(* are removed, braces stripped from both ends, hyphens removed; what is   *)
(* left must be 32 characters that int(_, 16) accepts, in 0 .. 2^128 - 1.  *)
(***************************************************************************)
\* int(s, 16) parses s: surrounding whitespace, a sign, a 0x prefix and single
\* underscores between digits are all accepted
IntBase16Parses(s) ==
    LET t == Strip(s, Whitespace)
        u == IF t # <<>> /\ Head(t) \in {"+", "-"} THEN Tail(t) ELSE t
        p == Len(u) >= 2 /\ u[1] = "0" /\ u[2] \in {"x", "X"}
        v == IF p THEN SubSeq(u, 3, Len(u)) ELSE u
        d == IF p /\ v # <<>> /\ Head(v) = "_" THEN Tail(v) ELSE v
    IN  /\ d # <<>>
        /\ \A i \in 1..Len(d) : d[i] \in HexDigits \cup {"_"}
        /\ d[1] # "_" /\ d[Len(d)] # "_"
        /\ ~Contains(d, <<"_", "_">>)

\* the parsed integer is negative: a minus sign before a non-zero value
IntBase16Negative(s) ==
    LET t == Strip(s, Whitespace)
    IN  /\ t # <<>> /\ Head(t) = "-"
        /\ \E i \in 2..Len(t) : t[i] \in HexDigits \ {"0"}

\* TRUE iff uuid.UUID(hex) returns, FALSE iff it raises ValueError
UuidParses(hex) ==
    LET h1 == RemoveAll(RemoveAll(hex, <<"u","r","n",":">>), <<"u","u","i","d",":">>)
        h2 == RemoveAll(Strip(h1, {"{", "}"}), <<"-">>)
    IN  /\ Len(h2) = 32
        /\ IntBase16Parses(h2)
        /\ ~IntBase16Negative(h2)

\* the verdicts on the identifier strings in use, computed once
UuidVerdicts == [name \in DOMAIN CharsOf |-> UuidParses(Chars(name))]

\* uuid.UUID on a name of the service's state
UUID(name) == UuidVerdicts[name]

(***************************************************************************)
(* The request validators.                                                 *)
(***************************************************************************)
validate_unique_id(v) == UuidParses(v)

BinaryChars == LowerLetters \cup UpperLetters \cup Digits \cup {"_", "-"}

validate_binary(v) == MatchesClassPlus(v, BinaryChars)

\* the grave accent (U+0060), which a string literal of this language cannot hold
Backtick == "grave"

ForbiddenArgChars == {";", "&", "|", Backtick, "$", "\n", "\r"}

\* a validator that looks at the first argument only
validate_first_arg(v) ==
    v # <<>> =>
        /\ ~\E i \in 1..Len(v[1]) : v[1][i] \in ForbiddenArgChars
        /\ ~(StartsWith(v[1], <<"/">>) \/ Contains(v[1], <<".", ".">>))

validate_args(v) ==
    \A k \in 1..Len(v) :
        /\ ~\E i \in 1..Len(v[k]) : v[k][i] \in ForbiddenArgChars
        /\ ~(StartsWith(v[k], <<"/">>) \/ Contains(v[k], <<".", ".">>))

\* the CommandRequest model: the request reaches execute_command when no
\* validator raises; unique_id_ok is validate_unique_id's verdict
CommandRequest(unique_id_ok, binary, args) ==
    unique_id_ok /\ validate_binary(binary) /\ validate_args(args)

FilenameChars == LowerLetters \cup UpperLetters \cup Digits \cup {"_", ".", "-"}

\* validate_filename with the allowed extension as a parameter
ValidateFilenameExt(filename, extension) ==
    /\ EndsWith(Lower(filename), extension)
    /\ ~(Contains(filename, <<"/">>) \/ Contains(filename, <<"\\">>)
            \/ Contains(filename, <<".", ".">>))
    /\ MatchesClassPlus(filename, FilenameChars)

validate_filename(filename) == ValidateFilenameExt(filename, ALLOWED_EXTENSION)

\* a read-path check that lets '..' through
DownloadFilenameDotsAllowed(filename) ==
    /\ ~(Contains(filename, <<"/">>) \/ Contains(filename, <<"\\">>))
    /\ MatchesClassPlus(filename, FilenameChars)

\* the two filename checks of download_file
DownloadFilenameOk(filename) ==
    /\ ~(Contains(filename, <<"/">>) \/ Contains(filename, <<"\\">>)
            \/ Contains(filename, <<".", ".">>))
    /\ MatchesClassPlus(filename, FilenameChars)

(***************************************************************************)
(* UTF-8.  bytes.decode('utf-8') on a byte sequence: the code points, or   *)
(* the failure value when the bytes are not well formed.                   *)
(***************************************************************************)
DecodeError == <<-1>>

IsCont(b) == b >= 128 /\ b <= 191

RECURSIVE Utf8Decode(_)
Utf8Decode(bs) ==
    IF bs = <<>> THEN <<>>
    ELSE LET b == Head(bs)
             n == IF b < 128 THEN 1
                  ELSE IF b >= 194 /\ b <= 223 THEN 2
                  ELSE IF b >= 224 /\ b <= 239 THEN 3
                  ELSE IF b >= 240 /\ b <= 244 THEN 4
                  ELSE 0
         IN  IF n = 0 \/ Len(bs) < n THEN DecodeError
             ELSE IF \E i \in 2..n : ~IsCont(bs[i]) THEN DecodeError
             ELSE IF n = 3 /\ ((b = 224 /\ bs[2] < 160) \/ (b = 237 /\ bs[2] > 159))
                  THEN DecodeError
             ELSE IF n = 4 /\ ((b = 240 /\ bs[2] < 144) \/ (b = 244 /\ bs[2] > 143))
                  THEN DecodeError
             ELSE LET cp == CASE n = 1 -> b
                              [] n = 2 -> (b - 192) * 64 + (bs[2] - 128)
                              [] n = 3 -> (b - 224) * 4096 + (bs[2] - 128) * 64
                                              + (bs[3] - 128)
                              [] OTHER -> (b - 240) * 262144 + (bs[2] - 128) * 4096
                                              + (bs[3] - 128) * 64 + (bs[4] - 128)
                      rest == Utf8Decode(SubSeq(bs, n + 1, Len(bs)))
                  IN  IF rest = DecodeError THEN DecodeError ELSE <<cp>> \o rest

\* str.encode('utf-8')
RECURSIVE Utf8Encode(_)
Utf8Encode(cps) ==
    IF cps = <<>> THEN <<>>
    ELSE LET c == Head(cps)
             enc == IF c < 128 THEN <<c>>
                    ELSE IF c < 2048 THEN <<192 + (c \div 64), 128 + (c % 64)>>
                    ELSE IF c < 65536
                         THEN <<224 + (c \div 4096), 128 + ((c \div 64) % 64), 128 + (c % 64)>>
                    ELSE <<240 + (c \div 262144), 128 + ((c \div 4096) % 64),
                           128 + ((c \div 64) % 64), 128 + (c % 64)>>
         IN  enc \o Utf8Encode(Tail(cps))

\* reading in text mode with the default newline=None: "\r\n" and "\r" become "\n"
RECURSIVE UniversalNewlines(_)
UniversalNewlines(cps) ==
    IF cps = <<>> THEN <<>>
    ELSE IF Head(cps) = 13
         THEN IF Len(cps) >= 2 /\ cps[2] = 10
              THEN <<10>> \o UniversalNewlines(SubSeq(cps, 3, Len(cps)))
              ELSE <<10>> \o UniversalNewlines(Tail(cps))
    ELSE <<Head(cps)>> \o UniversalNewlines(Tail(cps))

(***************************************************************************)
(* An upload payload is `data` followed by `pad` bytes of 0x61 ("a"), so   *)
(* that payloads around the size ceiling can be written down.              *)
(***************************************************************************)
ContentLen(content) == Len(content.data) + content.pad

validate_file_content(content) == Utf8Decode(content.data) # DecodeError

(***************************************************************************)
(* The filesystem.  A filesystem maps the absolute paths that exist to     *)
(* nodes; a path is the sequence of its components.  pathlib and os calls  *)
(* are operators over a filesystem value.                                  *)
(***************************************************************************)
Absent == [kind |-> "absent"]

Dir == [kind |-> "dir"]

RegularFile(content, executable) == [kind |-> "file", content |-> content, x |-> executable]

Symlink(target) == [kind |-> "link", target |-> target]

\* lstat: the node at a path whose parent components hold no symlink
NodeAt(fsys, p) == IF p \in DOMAIN fsys THEN fsys[p] ELSE Absent

\* the deepest chain of symlinks a lookup follows before it fails with ELOOP
MaxSymlinkHops == 8

LoopError == <<"ELOOP">>

\* Path.resolve() (non-strict): components are walked left to right, a symlink
\* is replaced by its target, a missing component is kept as written
RECURSIVE ResolveWalk(_, _, _, _)
ResolveWalk(fsys, done, rest, hops) ==
    IF rest = <<>> THEN done
    ELSE LET q == Append(done, Head(rest))
         IN  IF NodeAt(fsys, q).kind = "link"
             THEN IF hops = 0 THEN LoopError
                  ELSE ResolveWalk(fsys, <<>>, NodeAt(fsys, q).target \o Tail(rest), hops - 1)
             ELSE ResolveWalk(fsys, q, Tail(rest), hops)

Resolve(fsys, p) == ResolveWalk(fsys, <<>>, p, MaxSymlinkHops)

\* stat: the node a path leads to, symlinks followed; Absent when nothing is there
Stat(fsys, p) ==
    LET r == Resolve(fsys, p)
    IN  IF r = LoopError THEN Absent ELSE NodeAt(fsys, r)

\* Path.exists(), Path.is_dir(), Path.is_file() and os.access(_, os.X_OK) all
\* follow symlinks: each is a test on what stat finds (directories are
\* searchable, files need the x bit)
Exists(stat) == stat.kind # "absent"

IsDir(stat) == stat.kind = "dir"

IsFile(stat) == stat.kind = "file"

AccessX(stat) ==
    \/ stat.kind = "dir"
    \/ stat.kind = "file" /\ stat.x

\* str(path)
RECURSIVE Str(_)
Str(p) == IF p = <<>> THEN <<>> ELSE <<"/">> \o Chars(Head(p)) \o Str(Tail(p))

\* path / name
Join(p, name) == Append(p, name)

\* os.path.basename(s): what follows the last "/"
RECURSIVE BasenameChars(_)
BasenameChars(s) ==
    IF Contains(s, <<"/">>) THEN BasenameChars(Tail(s)) ELSE s

BasenameVerdicts == [name \in DOMAIN CharsOf |-> NameOf(BasenameChars(Chars(name)))]

Basename(name) == BasenameVerdicts[name]

\* p lies strictly below directory d
Below(d, p) == Len(p) > Len(d) /\ SubSeq(p, 1, Len(d)) = d

\* the names Path.iterdir() yields for the directory a path leads to
DirEntries(fsys, p) ==
    LET r == Resolve(fsys, p)
    IN  {q[Len(q)] : q \in {e \in DOMAIN fsys : Len(e) = Len(r) + 1 /\ Below(r, e)}}

\* the tree rooted at p removed
RemoveTree(fsys, p) ==
    [q \in {e \in DOMAIN fsys : e # p /\ ~Below(p, e)} |-> fsys[q]]

\* one node created or replaced
WithNode(fsys, p, node) ==
    [q \in DOMAIN fsys \cup {p} |-> IF q = p THEN node ELSE fsys[q]]

(***************************************************************************)
(* The handlers as functions of the filesystem and the request.  Each      *)
(* yields the HTTP status and detail, the filesystem it leaves, and        *)
(* `touched`: whether it made any filesystem call before answering.        *)
(***************************************************************************)
NoBody == [none |-> TRUE]

Answer(status, detail, fsys, touched, body) ==
    [status |-> status, detail |-> detail, fs |-> fsys, touched |-> touched, body |-> body]

\* an exclusive creation that takes an existing directory for its own
UploadMkdirExistOk(fsys, filename, content, uid) ==
    LET work_path == Join(WORK_DIR, uid)
    IN  IF Chars(filename) = <<>> \/ ~validate_filename(Chars(filename))
        THEN Answer(400, "Invalid filename", fsys, FALSE, NoBody)
        ELSE IF ContentLen(content) > MAX_FILE_SIZE
        THEN Answer(400, "File too large", fsys, FALSE, NoBody)
        ELSE IF ~validate_file_content(content)
        THEN Answer(400, "File content validation failed", fsys, FALSE, NoBody)
        ELSE Answer(0, "made", WithNode(fsys, work_path, Dir), TRUE, NoBody)

\* upload_file up to and including work_path.mkdir(exist_ok=False): an error
\* answer, or status 0 with the directory made
UploadMkdirOutcome(fsys, filename, content, uid) ==
    LET work_path == Join(WORK_DIR, uid)
    IN  IF Chars(filename) = <<>> \/ ~validate_filename(Chars(filename))
        THEN Answer(400, "Invalid filename", fsys, FALSE, NoBody)
        ELSE IF ContentLen(content) > MAX_FILE_SIZE
        THEN Answer(400, "File too large", fsys, FALSE, NoBody)
        ELSE IF ~validate_file_content(content)
        THEN Answer(400, "File content validation failed", fsys, FALSE, NoBody)
        ELSE IF NodeAt(fsys, work_path).kind # "absent"
        THEN Answer(500, "Failed to create unique workspace", fsys, TRUE, NoBody)
        ELSE Answer(0, "made", WithNode(fsys, work_path, Dir), TRUE, NoBody)

\* upload_file from the open of the initial file on.  The open fails when the
\* directory is no longer there; a failed open or write is followed by
\* rmtree(work_path, ignore_errors=True)
UploadWriteOutcome(fsys, filename, content, uid, writeOk) ==
    LET work_path == Join(WORK_DIR, uid)
        file_path == Join(work_path, filename)
    IN  IF ~writeOk \/ ~IsDir(Stat(fsys, work_path))
        THEN Answer(500, "Failed to save file", RemoveTree(fsys, work_path), TRUE, NoBody)
        ELSE Answer(200, "OK", WithNode(fsys, file_path, RegularFile(content, FALSE)), TRUE,
                    [unique_id |-> uid, filename |-> filename, size |-> ContentLen(content),
                     path |-> Str(file_path)])

\* an upload that makes the workspace directory before it validates
UploadMakingDirectoryFirst(fsys, filename, content, uid, writeOk) ==
    LET work_path == Join(WORK_DIR, uid)
        file_path == Join(work_path, filename)
        made      == WithNode(fsys, work_path, Dir)
    IN  IF NodeAt(fsys, work_path).kind # "absent"
        THEN Answer(500, "Failed to create unique workspace", fsys, TRUE, NoBody)
        ELSE IF Chars(filename) = <<>> \/ ~validate_filename(Chars(filename))
        THEN Answer(400, "Invalid filename", made, TRUE, NoBody)
        ELSE IF ContentLen(content) > MAX_FILE_SIZE
        THEN Answer(400, "File too large", made, TRUE, NoBody)
        ELSE IF ~validate_file_content(content)
        THEN Answer(400, "File content validation failed", made, TRUE, NoBody)
        ELSE IF ~writeOk
        THEN Answer(500, "Failed to save file", RemoveTree(made, work_path), TRUE, NoBody)
        ELSE Answer(200, "OK", WithNode(made, file_path, RegularFile(content, FALSE)), TRUE,
                    [unique_id |-> uid, filename |-> filename, size |-> ContentLen(content),
                     path |-> Str(file_path)])

\* an upload that reports a failed write and leaves the directory it made
UploadWithoutRollback(fsys, filename, content, uid, writeOk) ==
    LET work_path == Join(WORK_DIR, uid)
        file_path == Join(work_path, filename)
        made      == WithNode(fsys, work_path, Dir)
    IN  IF Chars(filename) = <<>> \/ ~validate_filename(Chars(filename))
        THEN Answer(400, "Invalid filename", fsys, FALSE, NoBody)
        ELSE IF ContentLen(content) > MAX_FILE_SIZE
        THEN Answer(400, "File too large", fsys, FALSE, NoBody)
        ELSE IF ~validate_file_content(content)
        THEN Answer(400, "File content validation failed", fsys, FALSE, NoBody)
        ELSE IF NodeAt(fsys, work_path).kind # "absent"
        THEN Answer(500, "Failed to create unique workspace", fsys, TRUE, NoBody)
        ELSE IF ~writeOk
        THEN Answer(500, "Failed to save file", made, TRUE, NoBody)
        ELSE Answer(200, "OK", WithNode(made, file_path, RegularFile(content, FALSE)), TRUE,
                    [unique_id |-> uid, filename |-> filename, size |-> ContentLen(content),
                     path |-> Str(file_path)])

\* POST /upload.  uid is the value uuid.uuid4() returns, writeOk whether the
\* open/write of the initial file succeeds.  The removal after a failed write
\* (rmtree with ignore_errors) is of a directory this call has just made and
\* is taken to succeed.
UploadOutcome(fsys, filename, content, uid, writeOk) ==
    LET work_path == Join(WORK_DIR, uid)
        file_path == Join(work_path, filename)
        made      == WithNode(fsys, work_path, Dir)
    IN  IF Chars(filename) = <<>> \/ ~validate_filename(Chars(filename))
        THEN Answer(400, "Invalid filename", fsys, FALSE, NoBody)
        ELSE IF ContentLen(content) > MAX_FILE_SIZE
        THEN Answer(400, "File too large", fsys, FALSE, NoBody)
        ELSE IF ~validate_file_content(content)
        THEN Answer(400, "File content validation failed", fsys, FALSE, NoBody)
        ELSE IF NodeAt(fsys, work_path).kind # "absent"
        THEN Answer(500, "Failed to create unique workspace", fsys, TRUE, NoBody)
        ELSE IF ~writeOk
        THEN Answer(500, "Failed to save file", RemoveTree(made, work_path), TRUE, NoBody)
        ELSE Answer(200, "OK", WithNode(made, file_path, RegularFile(content, FALSE)), TRUE,
                    [unique_id |-> uid, filename |-> filename, size |-> ContentLen(content),
                     path |-> Str(file_path)])

\* POST /execute up to the subprocess.run call: an error answer, or status 0
\* with the launch (argv[0], the arguments, the working directory) as body
ExecuteOutcome(fsys, request) ==
    LET work_path   == Join(WORK_DIR, request.unique_id)
        binary_name == Basename(request.binary)
        binary_path == Join(BIN_DIR, binary_name)
        work_stat   == Stat(fsys, work_path)
        binary_stat == Stat(fsys, binary_path)
        resolved    == Resolve(fsys, binary_path)
    IN  IF ~CommandRequest(UUID(request.unique_id), Chars(request.binary),
                           [k \in 1..Len(request.args) |-> Chars(request.args[k])])
        THEN Answer(422, "validation error", fsys, FALSE, NoBody)
        ELSE IF ~Exists(work_stat) \/ ~IsDir(work_stat)
        THEN Answer(404, "Workspace not found", fsys, TRUE, NoBody)
        ELSE IF ~Exists(binary_stat)
        THEN Answer(400, "Binary not found", fsys, TRUE, NoBody)
        ELSE IF ~AccessX(binary_stat)
        THEN Answer(400, "Binary is not executable", fsys, TRUE, NoBody)
        ELSE IF resolved = LoopError
        THEN Answer(403, "Failed to resolve binary path", fsys, TRUE, NoBody)
        ELSE IF ~StartsWith(Str(resolved), Str(Resolve(fsys, BIN_DIR)))
        THEN Answer(403, "Failed to resolve binary path", fsys, TRUE, NoBody)
        ELSE IF ~IsFile(binary_stat)
        THEN Answer(500, "Command execution failed", fsys, TRUE, NoBody)
        ELSE Answer(0, "launched", fsys, TRUE,
                    [argv0 |-> binary_path, args |-> request.args, cwd |-> work_path,
                     unique_id |-> request.unique_id, binary |-> binary_name])

\* an entry whose size counts characters, not bytes
ListEntryCountingCharacters(fsys, item) ==
    LET item_stat == Stat(fsys, item)
    IN  [name |-> item[Len(item)],
         size |-> IF IsFile(item_stat)
                  THEN Len(Utf8Decode(item_stat.content.data)) + item_stat.content.pad
                  ELSE -1,
         type |-> IF IsFile(item_stat) THEN "file" ELSE "directory"]

\* one entry of the listing
ListEntry(fsys, item) ==
    LET item_stat == Stat(fsys, item)
    IN  [name |-> item[Len(item)],
         size |-> IF IsFile(item_stat) THEN ContentLen(item_stat.content) ELSE -1,
         type |-> IF IsFile(item_stat) THEN "file" ELSE "directory"]

\* a listing that removes the workspace it has listed
ListReapingWorkspace(fsys, unique_id) ==
    LET work_path == Join(WORK_DIR, unique_id)
    IN  IF ~UUID(unique_id)
        THEN Answer(400, "Invalid unique_id format", fsys, FALSE, NoBody)
        ELSE IF ~Exists(Stat(fsys, work_path))
        THEN Answer(404, "Workspace not found", fsys, TRUE, NoBody)
        ELSE Answer(200, "OK", RemoveTree(fsys, work_path), TRUE, NoBody)

\* a listing that does not look whether the workspace exists
ListWithoutExistenceCheck(fsys, unique_id) ==
    LET work_path == Join(WORK_DIR, unique_id)
        work_stat == Stat(fsys, work_path)
    IN  IF ~UUID(unique_id)
        THEN Answer(400, "Invalid unique_id format", fsys, FALSE, NoBody)
        ELSE IF ~IsDir(work_stat)
        THEN Answer(500, "Failed to list files", fsys, TRUE, NoBody)
        ELSE Answer(200, "OK", fsys, TRUE,
                    [unique_id |-> unique_id,
                     files |-> {ListEntry(fsys, Join(work_path, n)) :
                                    n \in DirEntries(fsys, work_path)}])

\* GET /list/{unique_id}; size -1 stands for None
ListOutcome(fsys, unique_id) ==
    LET work_path == Join(WORK_DIR, unique_id)
        work_stat == Stat(fsys, work_path)
    IN  IF ~UUID(unique_id)
        THEN Answer(400, "Invalid unique_id format", fsys, FALSE, NoBody)
        ELSE IF ~Exists(work_stat)
        THEN Answer(404, "Workspace not found", fsys, TRUE, NoBody)
        ELSE IF ~IsDir(work_stat)
        THEN Answer(500, "Failed to list files", fsys, TRUE, NoBody)
        ELSE Answer(200, "OK", fsys, TRUE,
                    [unique_id |-> unique_id,
                     files |-> {ListEntry(fsys, Join(work_path, n)) :
                                    n \in DirEntries(fsys, work_path)}])

\* GET /download/{unique_id}/{filename}
DownloadOutcome(fsys, unique_id, filename) ==
    LET work_path == Join(WORK_DIR, unique_id)
        file_path == Join(work_path, filename)
        work_stat == Stat(fsys, work_path)
        file_stat == Stat(fsys, file_path)
        resolved  == Resolve(fsys, file_path)
        content   == file_stat.content
        text      == Utf8Decode(content.data)
    IN  IF ~UUID(unique_id)
        THEN Answer(400, "Invalid unique_id format", fsys, FALSE, NoBody)
        ELSE IF ~DownloadFilenameOk(Chars(filename))
        THEN Answer(400, "Invalid filename", fsys, FALSE, NoBody)
        ELSE IF ~Exists(work_stat)
        THEN Answer(404, "Workspace not found", fsys, TRUE, NoBody)
        ELSE IF ~Exists(file_stat)
        THEN Answer(404, "File not found", fsys, TRUE, NoBody)
        ELSE IF ~IsFile(file_stat)
        THEN Answer(400, "Not a file", fsys, TRUE, NoBody)
        ELSE IF resolved = LoopError
                 \/ ~StartsWith(Str(resolved), Str(Resolve(fsys, work_path)))
        THEN Answer(403, "Failed to resolve file path", fsys, TRUE, NoBody)
        ELSE IF text = DecodeError
        THEN Answer(400, "File is not valid UTF-8 text", fsys, TRUE, NoBody)
        ELSE Answer(200, "OK", fsys, TRUE,
                    [unique_id |-> unique_id, filename |-> filename,
                     size |-> Len(Utf8Encode(UniversalNewlines(text))) + content.pad,
                     content |-> [text |-> UniversalNewlines(text), pad |-> content.pad]])

\* a cleanup that does not look whether the workspace exists
CleanupWithoutExistenceCheck(fsys, unique_id) ==
    LET work_path == Join(WORK_DIR, unique_id)
    IN  IF ~UUID(unique_id)
        THEN Answer(400, "Invalid unique_id format", fsys, FALSE, NoBody)
        ELSE IF NodeAt(fsys, work_path).kind # "dir"
        THEN Answer(500, "Failed to delete workspace", fsys, TRUE, NoBody)
        ELSE Answer(200, "Workspace deleted", RemoveTree(fsys, work_path), TRUE,
                    [unique_id |-> unique_id])

\* the containment check of cleanup: the resolved workspace path, as a string,
\* starts with the resolved root, as a string
CleanupContained(fsys, unique_id) ==
    LET resolved == Resolve(fsys, Join(WORK_DIR, unique_id))
    IN  /\ resolved # LoopError
        /\ StartsWith(Str(resolved), Str(Resolve(fsys, WORK_DIR)))

\* a cleanup without the containment check, whose removal follows a link that
\* stands in the workspace's place and removes what the link leads to
CleanupFollowingSymlink(fsys, unique_id) ==
    LET work_path == Join(WORK_DIR, unique_id)
        resolved  == Resolve(fsys, work_path)
    IN  IF ~UUID(unique_id)
        THEN Answer(400, "Invalid unique_id format", fsys, FALSE, NoBody)
        ELSE IF ~Exists(Stat(fsys, work_path))
        THEN Answer(404, "Workspace not found", fsys, TRUE, NoBody)
        ELSE IF resolved = LoopError
        THEN Answer(500, "Failed to delete workspace", fsys, TRUE, NoBody)
        ELSE Answer(200, "Workspace deleted",
                    RemoveTree(RemoveTree(fsys, resolved), work_path), TRUE,
                    [unique_id |-> unique_id])

\* a cleanup that removes the workspace's directory only when it is empty
CleanupRemovingEmptyOnly(fsys, unique_id) ==
    LET work_path == Join(WORK_DIR, unique_id)
    IN  IF ~UUID(unique_id)
        THEN Answer(400, "Invalid unique_id format", fsys, FALSE, NoBody)
        ELSE IF ~Exists(Stat(fsys, work_path))
        THEN Answer(404, "Workspace not found", fsys, TRUE, NoBody)
        ELSE IF \/ ~CleanupContained(fsys, unique_id)
                \/ NodeAt(fsys, work_path).kind # "dir"
                \/ DirEntries(fsys, work_path) # {}
        THEN Answer(500, "Failed to delete workspace", fsys, TRUE, NoBody)
        ELSE Answer(200, "Workspace deleted", RemoveTree(fsys, work_path), TRUE,
                    [unique_id |-> unique_id])

\* DELETE /cleanup/{unique_id}.  The 403 raised when the containment check
\* fails is raised inside the try block, whose handler for every exception
\* answers 500; shutil.rmtree refuses a symbolic link, which ends in the same
\* handler.
CleanupOutcome(fsys, unique_id) ==
    LET work_path == Join(WORK_DIR, unique_id)
    IN  IF ~UUID(unique_id)
        THEN Answer(400, "Invalid unique_id format", fsys, FALSE, NoBody)
        ELSE IF ~Exists(Stat(fsys, work_path))
        THEN Answer(404, "Workspace not found", fsys, TRUE, NoBody)
        ELSE IF ~CleanupContained(fsys, unique_id)
        THEN Answer(500, "Failed to delete workspace", fsys, TRUE, NoBody)
        ELSE IF NodeAt(fsys, work_path).kind # "dir"
        THEN Answer(500, "Failed to delete workspace", fsys, TRUE, NoBody)
        ELSE Answer(200, "Workspace deleted", RemoveTree(fsys, work_path), TRUE,
                    [unique_id |-> unique_id])

\* GET /binaries: the sorted names, as the set of them
ListBinariesOutcome(fsys) ==
    IF ~Exists(Stat(fsys, BIN_DIR))
    THEN Answer(200, "OK", fsys, TRUE, [binaries |-> {}])
    ELSE Answer(200, "OK", fsys, TRUE,
                [binaries |-> {n \in DirEntries(fsys, BIN_DIR) :
                                  /\ IsFile(Stat(fsys, Join(BIN_DIR, n)))
                                  /\ AccessX(Stat(fsys, Join(BIN_DIR, n)))}])

(***************************************************************************)
(* The requests and the environment the service is driven with.            *)
(***************************************************************************)
ChaName == "chip.cha"

TxtName == "chip.txt"

LinkName == "lnk"

DownloadNames == {ChaName, LinkName, UpLevel}

\* "a b c", a lone 0xFF, and one byte more than the ceiling
PlainText == [data |-> <<97, 32, 98, 32, 99>>, pad |-> 0]

NotUtf8 == [data |-> <<255>>, pad |-> 0]

TooLarge == [data |-> <<97>>, pad |-> MAX_FILE_SIZE]

ForeignText == [data |-> <<115, 101, 99, 114, 101, 116>>, pad |-> 0]

\* the binaries directory as installed, its sibling, and a file outside
Freq == "freq"

Kwal == "kwal"

Evil == "evil"

Away == "away"

Subd == "subd"

Nope == "nope"

Slashed == "../freq"

BinaryInputs == {Freq, Kwal, Evil, Away, Subd, Nope, Slashed}

BinSibling == <<"webclan", "unix", "binx">>

OutsideDir == <<"etc">>

OutsideFile == Join(OutsideDir, "passwd")

OutsideTool == Join(OutsideDir, "tool")

\* a directory next to the workspace root whose name starts with the root's
RootSibling == Join(SubSeq(WORK_DIR, 1, Len(WORK_DIR) - 1), "workx")

RootSiblingFile == Join(RootSibling, ChaName)

\* the directory next to a workspace whose name starts with the workspace's
SiblingDir(uid) == Join(WORK_DIR, NameOf(Chars(uid) \o <<"x">>))

SiblingFile(uid) == Join(SiblingDir(uid), ChaName)

ArgInputs == {<<>>, <<ChaName>>, <<LinkName>>, <<ChaName, ";">>}

\* the requests of the service runs: the ones of example.py, and each field
\* varied on its own
Request(uid, binary, args) == [unique_id |-> uid, binary |-> binary, args |-> args]

ExecuteRequests ==
    {Request(u, Freq, <<ChaName>>) : u \in IdInputs}
        \cup {Request(U1, b, <<>>) : b \in BinaryInputs}
        \cup {Request(U1, Freq, a) : a \in ArgInputs}

\* the upload of example.py with each identifier uuid4 may draw, the write
\* succeeding or failing, and the uploads each validator turns down
Call(filename, content, uid, writeOk) ==
    [filename |-> filename, content |-> content, uid |-> uid, writeOk |-> writeOk]

UploadCalls ==
    {Call(ChaName, PlainText, u, ok) : u \in UuidPool, ok \in BOOLEAN}
        \cup {Call(ChaName, NotUtf8, U1, TRUE), Call(ChaName, TooLarge, U1, TRUE),
              Call(TxtName, PlainText, U1, TRUE)}

InitialFs ==
    LET dirs == {<<>>, SubSeq(WORK_DIR, 1, 1), WORK_DIR, SubSeq(BIN_DIR, 1, 2), BIN_DIR,
                 BinSibling, OutsideDir, Join(BIN_DIR, Subd)}
        files == {Join(BIN_DIR, Freq), Join(BIN_DIR, Kwal), Join(BinSibling, Evil),
                  OutsideFile, OutsideTool}
        links == {Join(BIN_DIR, Evil), Join(BIN_DIR, Away)}
    IN  [p \in dirs \cup files \cup links |->
            IF p \in dirs THEN Dir
            ELSE IF p = Join(BIN_DIR, Evil) THEN Symlink(Join(BinSibling, Evil))
            ELSE IF p = Join(BIN_DIR, Away) THEN Symlink(OutsideTool)
            ELSE IF p = OutsideFile THEN RegularFile(ForeignText, FALSE)
            ELSE IF p = Join(BIN_DIR, Kwal) THEN RegularFile(PlainText, FALSE)
            ELSE RegularFile(PlainText, TRUE)]

(***************************************************************************)
(* The state.                                                              *)
(***************************************************************************)
VARIABLES
    fs,           \* the filesystem
    running,      \* per workspace: the server processes waiting in subprocess.run
                  \* for a child they started in it
    last,         \* the last event: a launch (status 0) or an answer
    ever,         \* history: the identifiers a successful upload has returned
    outstanding,  \* history: per identifier, successful creates minus successful destroys
    uploaded,     \* history: per identifier, the file its successful upload stored
    vin,          \* validator bench: the input
    vout,         \* validator bench: the verdicts
    creating      \* per server process: the upload it has made the directory for
                  \* and not yet written the file of

vars == <<fs, running, last, ever, outstanding, uploaded, vin, vout, creating>>

\* the sum of a function's values
RECURSIVE Total(_)
Total(f) ==
    IF DOMAIN f = {} THEN 0
    ELSE LET x == CHOOSE x \in DOMAIN f : TRUE
         IN  f[x] + Total([y \in DOMAIN f \ {x} |-> f[y]])

Event(op, status, notes) == [op |-> op, status |-> status, notes |-> notes]

NoInput == [kind |-> "none"]

Unset == [none |-> TRUE]

NoUpload == [none |-> TRUE]

\* the server processes that take uploads step by step
Creators == {"first", "second"}

NotCreating == [none |-> TRUE]

\* p is directory d or lies below it, component by component
Inside(d, p) == p = d \/ Below(d, p)

\* what a launch hands to the child, measured on the filesystem of the moment:
\* an argument naming a workspace entry that leads out of the workspace, a
\* program that lies outside the binaries directory
LaunchNotes(fsys, launch) ==
    LET work_real == Resolve(fsys, launch.cwd)
        leads_out(a) ==
            /\ NodeAt(fsys, Join(launch.cwd, a)).kind # "absent"
            /\ ~Inside(work_real, Resolve(fsys, Join(launch.cwd, a)))
    IN  (IF \E k \in 1..Len(launch.args) : leads_out(launch.args[k])
         THEN {"argument outside workspace"} ELSE {})
        \cup
        (IF ~Inside(Resolve(fsys, BIN_DIR), Resolve(fsys, launch.argv0))
         THEN {"program outside binaries"} ELSE {})

\* where the content of a successful download came from
DownloadNotes(fsys, unique_id, filename) ==
    LET work_path == Join(WORK_DIR, unique_id)
    IN  IF ~Inside(Resolve(fsys, work_path), Resolve(fsys, Join(work_path, filename)))
        THEN {"content from outside workspace"} ELSE {}

\* what the history says of the workspace an identifier names
History(unique_id) ==
    IF unique_id \in UuidPool /\ outstanding[unique_id] > 0 THEN {"active"}
    ELSE IF unique_id \in ever THEN {"already destroyed"}
    ELSE {"never created"}

\* a canonical UUID string: 36 characters, "-" at 9, 14, 19 and 24, a
\* hexadecimal digit everywhere else
CanonicalUuid(s) ==
    /\ Len(s) = 36
    /\ \A i \in 1..36 : IF i \in {9, 14, 19, 24} THEN s[i] = "-" ELSE s[i] \in HexDigits

CanonicalVerdicts == [name \in IdInputs |-> CanonicalUuid(Chars(name))]

\* what is on record of an answer to a call that names a workspace: the
\* history of the identifier, whether it is written canonically, and whether
\* the handler made a filesystem call before answering
Observed(unique_id, o) ==
    History(unique_id)
        \cup (IF CanonicalVerdicts[unique_id] THEN {} ELSE {"identifier not canonical"})
        \cup (IF o.touched THEN {"filesystem touched"} ELSE {})

Init ==
    /\ fs = InitialFs
    /\ running = [u \in UuidPool |-> 0]
    /\ last = Event("start", 0, {})
    /\ ever = {}
    /\ outstanding = [u \in UuidPool |-> 0]
    /\ uploaded = [u \in UuidPool |-> NoUpload]
    /\ vin = NoInput
    /\ vout = Unset
    /\ creating = [c \in Creators |-> NotCreating]

\* a handler runs on a server process whose event loop is not blocked in
\* subprocess.run
SomeWorkerFree == Total(running) < NumWorkers

Upload(filename, content, uid, writeOk) ==
    /\ SomeWorkerFree
    /\ LET o == UploadOutcome(fs, filename, content, uid, writeOk)
       IN  /\ fs' = o.fs
           /\ last' = Event("upload", o.status, {})
           /\ ever' = IF o.status = 200 THEN ever \cup {uid} ELSE ever
           /\ outstanding' = IF o.status = 200
                             THEN [outstanding EXCEPT ![uid] = @ + 1]
                             ELSE outstanding
           /\ uploaded' = IF o.status = 200
                          THEN [uploaded EXCEPT
                                   ![uid] = [filename |-> filename, content |-> content]]
                          ELSE uploaded
    /\ UNCHANGED <<running, vin, vout, creating>>

\* execute_command up to and including the start of the child
Execute(request) ==
    /\ SomeWorkerFree
    /\ LET o == ExecuteOutcome(fs, request)
       IN  /\ fs' = o.fs
           /\ last' = Event("execute", o.status,
                            IF o.status = 0 THEN LaunchNotes(fs, o.body)
                            ELSE Observed(request.unique_id, o))
           /\ running' = IF o.status = 0
                         THEN [running EXCEPT ![request.unique_id] = @ + 1]
                         ELSE running
    /\ UNCHANGED <<ever, outstanding, uploaded, vin, vout, creating>>

\* the processes of an execution that run on once subprocess.run is over,
\* given whether the child started a process of its own that has not ended:
\* run waits for the child (after killing it, when the timeout expired) and
\* for no other process
Survivors(spawned) == IF spawned THEN {"descendant alive"} ELSE {}

\* the child ends within the timeout and subprocess.run returns
ExecuteReturn(uid, spawned) ==
    /\ running[uid] > 0
    /\ last' = Event("execute", 200, Survivors(spawned))
    /\ running' = [running EXCEPT ![uid] = @ - 1]
    /\ UNCHANGED <<fs, ever, outstanding, uploaded, vin, vout, creating>>

\* COMMAND_TIMEOUT seconds pass before the child ends
ExecuteTimeout(uid, spawned) ==
    /\ running[uid] > 0
    /\ last' = Event("execute", 408, Survivors(spawned))
    /\ running' = [running EXCEPT ![uid] = @ - 1]
    /\ UNCHANGED <<fs, ever, outstanding, uploaded, vin, vout, creating>>

\* a command running in a workspace links the name lnk to a file elsewhere;
\* the directory next to the workspace is made along with the link into it
PlantSymlink(uid, target) ==
    /\ running[uid] > 0
    /\ NodeAt(fs, Join(WORK_DIR, uid)).kind = "dir"
    /\ NodeAt(fs, Join(Join(WORK_DIR, uid), LinkName)).kind = "absent"
    /\ LET linked == WithNode(fs, Join(Join(WORK_DIR, uid), LinkName), Symlink(target))
       IN  fs' = IF target = SiblingFile(uid)
                 THEN WithNode(WithNode(linked, SiblingDir(uid), Dir),
                               SiblingFile(uid), RegularFile(ForeignText, FALSE))
                 ELSE linked
    /\ UNCHANGED <<running, last, ever, outstanding, uploaded, vin, vout, creating>>

List(unique_id) ==
    /\ SomeWorkerFree
    /\ LET o == ListOutcome(fs, unique_id)
       IN  /\ fs' = o.fs
           /\ last' = Event("list", o.status, Observed(unique_id, o))
    /\ UNCHANGED <<running, ever, outstanding, uploaded, vin, vout, creating>>

Download(unique_id, filename) ==
    /\ SomeWorkerFree
    /\ LET o == DownloadOutcome(fs, unique_id, filename)
       IN  /\ fs' = o.fs
           /\ last' = Event("download", o.status,
                            IF o.status = 200 THEN DownloadNotes(fs, unique_id, filename)
                            ELSE Observed(unique_id, o))
    /\ UNCHANGED <<running, ever, outstanding, uploaded, vin, vout, creating>>

\* what is on record of a cleanup besides the answer: whether the handler came
\* as far as its containment check and the check failed
CleanupNotes(fsys, unique_id) ==
    IF /\ UUID(unique_id)
       /\ Exists(Stat(fsys, Join(WORK_DIR, unique_id)))
       /\ ~CleanupContained(fsys, unique_id)
    THEN {"containment check failed"}
    ELSE {}

Cleanup(unique_id) ==
    /\ SomeWorkerFree
    /\ LET o == CleanupOutcome(fs, unique_id)
           gone == o.status = 200 /\ unique_id \in UuidPool
       IN  /\ fs' = o.fs
           /\ last' = Event("cleanup", o.status,
                            Observed(unique_id, o) \cup CleanupNotes(fs, unique_id))
           /\ outstanding' = IF gone
                             THEN [outstanding EXCEPT ![unique_id] = @ - 1]
                             ELSE outstanding
           /\ uploaded' = IF gone
                          THEN [uploaded EXCEPT ![unique_id] = NoUpload]
                          ELSE uploaded
    /\ UNCHANGED <<running, ever, vin, vout, creating>>

ListBinaries ==
    /\ SomeWorkerFree
    /\ LET o == ListBinariesOutcome(fs)
       IN  /\ fs' = o.fs
           /\ last' = Event("binaries", o.status, {})
    /\ UNCHANGED <<running, ever, outstanding, uploaded, vin, vout, creating>>

Next ==
    \/ \E c \in UploadCalls : Upload(c.filename, c.content, c.uid, c.writeOk)
    \/ \E r \in ExecuteRequests : Execute(r)
    \/ \E u \in UuidPool, spawned \in BOOLEAN : ExecuteReturn(u, spawned)
    \/ \E u \in UuidPool, spawned \in BOOLEAN : ExecuteTimeout(u, spawned)
    \/ \E u \in UuidPool : PlantSymlink(u, OutsideFile)
    \/ \E u \in UuidPool : PlantSymlink(u, SiblingFile(u))
    \/ \E u \in IdInputs : List(u)
    \/ \E u \in IdInputs, f \in DownloadNames : Download(u, f)
    \/ \E u \in IdInputs : Cleanup(u)
    \/ ListBinaries

Spec == Init /\ [][Next]_vars

(***************************************************************************)
(* Round trips: one workspace, uploads of every short content over bytes   *)
(* that include CR, LF, a two-byte UTF-8 sequence and its halves.         *)
(***************************************************************************)
RoundTripBytes == {10, 13, 195, 169}

RoundTripContents == {[data |-> d, pad |-> 0] : d \in StrUpTo(RoundTripBytes, MaxDataLen)}

NextRoundTrip ==
    \/ \E c \in RoundTripContents : Upload(ChaName, c, U1, TRUE)
    \/ Download(U1, ChaName)
    \/ List(U1)
    \/ Cleanup(U1)

SpecRoundTrip == Init /\ [][NextRoundTrip]_vars

(***************************************************************************)
(* The validators on their own: each generated input is put to the         *)
(* validator of its kind.                                                  *)
(***************************************************************************)
StemAlphabet == {"a", ".", "/", "\\", "\n", " "}

Suffixes == {<<>>, ALLOWED_EXTENSION, <<".", "C", "H", "A">>, <<".", "t", "x", "t">>}

FilenameInputs == {stem \o suffix : stem \in StrUpTo(StemAlphabet, MaxStemLen), suffix \in Suffixes}

ArgAlphabet == ForbiddenArgChars \cup {"/", ".", "a"}

Fillers == {Chars(ChaName), <<"+", "t", "*">>}

FillerLists == StrUpTo(Fillers, MaxFill)

ArgListInputs ==
    FillerLists
        \cup {pre \o <<probe>> \o post :
                 pre \in FillerLists, probe \in StrUpTo(ArgAlphabet, MaxArgLen),
                 post \in FillerLists}

BinaryNameInputs == StrUpTo({"a", "Z", "0", "_", "-", "/", ".", "\n"}, MaxBinLen)

IdentifierInputs == {Chars(name) : name \in IdSpellings}

Input(kind, value) == [kind |-> kind, value |-> value]

ValidatorInputs ==
    {Input("filename", v) : v \in FilenameInputs}
        \cup {Input("args", v) : v \in ArgListInputs}
        \cup {Input("binary", v) : v \in BinaryNameInputs}
        \cup {Input("unique_id", v) : v \in IdentifierInputs}

InitValidators ==
    /\ fs = InitialFs
    /\ running = [u \in UuidPool |-> 0]
    /\ last = Event("start", 0, {})
    /\ ever = {}
    /\ outstanding = [u \in UuidPool |-> 0]
    /\ uploaded = [u \in UuidPool |-> NoUpload]
    /\ vin \in ValidatorInputs
    /\ vout = Unset
    /\ creating = [c \in Creators |-> NotCreating]

\* the filename as upload_file and as download_file judge it
CheckFilename ==
    /\ vin.kind = "filename"
    /\ vout = Unset
    /\ vout' = [upload |-> vin.value # <<>> /\ validate_filename(vin.value),
                read |-> DownloadFilenameOk(vin.value)]
    /\ UNCHANGED <<fs, running, last, ever, outstanding, uploaded, vin, creating>>

\* the argument list as validate_args judges it, and as part of a request
\* whose other fields are those of example.py
CheckArgs ==
    /\ vin.kind = "args"
    /\ vout = Unset
    /\ vout' = [accepted |-> validate_args(vin.value),
                status |-> IF CommandRequest(validate_unique_id(U1Chars), Chars(Freq),
                                             vin.value)
                           THEN 0 ELSE 422]
    /\ UNCHANGED <<fs, running, last, ever, outstanding, uploaded, vin, creating>>

CheckBinary ==
    /\ vin.kind = "binary"
    /\ vout = Unset
    /\ vout' = [accepted |-> validate_binary(vin.value)]
    /\ UNCHANGED <<fs, running, last, ever, outstanding, uploaded, vin, creating>>

CheckUniqueId ==
    /\ vin.kind = "unique_id"
    /\ vout = Unset
    /\ vout' = [accepted |-> validate_unique_id(vin.value)]
    /\ UNCHANGED <<fs, running, last, ever, outstanding, uploaded, vin, creating>>

NextValidators ==
    \/ CheckFilename
    \/ CheckArgs
    \/ CheckBinary
    \/ CheckUniqueId

SpecValidators == InitValidators /\ [][NextValidators]_vars

(***************************************************************************)
(* Uploads taken step by step: two server processes, each between its      *)
(* mkdir and its write when the other's steps, or a read, happen.          *)
(***************************************************************************)
Creation(filename, content, uid) == [filename |-> filename, content |-> content, uid |-> uid]

\* "hi"
ShortText == [data |-> <<104, 105>>, pad |-> 0]

\* uploads that pass validation, and one that does not
CreateInputs ==
    {Creation(f, c, u) : f \in {ChaName}, c \in {PlainText, ShortText}, u \in UuidPool}
        \cup {Creation(TxtName, PlainText, U1)}

\* upload_file through the exclusive mkdir, uuid4 having drawn uid; an upload
\* that passed validation is on record with whether uid named a directory
CreateMkdir(c, filename, content, uid) ==
    /\ creating[c] = NotCreating
    /\ LET o == UploadMkdirOutcome(fs, filename, content, uid)
       IN  /\ fs' = o.fs
           /\ last' = Event("upload", o.status,
                            IF o.status # 400
                                   /\ NodeAt(fs, Join(WORK_DIR, uid)).kind # "absent"
                            THEN {"identifier in use"} ELSE {})
           /\ creating' = IF o.status = 0
                          THEN [creating EXCEPT ![c] = Creation(filename, content, uid)]
                          ELSE creating
    /\ UNCHANGED <<running, ever, outstanding, uploaded, vin, vout>>

\* the rest of upload_file: the write, or the rollback after it failed
CreateWrite(c, writeOk) ==
    /\ creating[c] # NotCreating
    /\ LET job == creating[c]
           o == UploadWriteOutcome(fs, job.filename, job.content, job.uid, writeOk)
       IN  /\ fs' = o.fs
           /\ last' = Event("upload", o.status, {})
           /\ ever' = IF o.status = 200 THEN ever \cup {job.uid} ELSE ever
           /\ outstanding' = IF o.status = 200
                             THEN [outstanding EXCEPT ![job.uid] = @ + 1]
                             ELSE outstanding
           /\ uploaded' = IF o.status = 200
                          THEN [uploaded EXCEPT
                                   ![job.uid] = [filename |-> job.filename,
                                                 content |-> job.content]]
                          ELSE uploaded
    /\ creating' = [creating EXCEPT ![c] = NotCreating]
    /\ UNCHANGED <<running, vin, vout>>

NextCreateRace ==
    \/ \E c \in Creators, j \in CreateInputs : CreateMkdir(c, j.filename, j.content, j.uid)
    \/ \E c \in Creators, ok \in BOOLEAN : CreateWrite(c, ok)
    \/ \E u \in UuidPool : List(u)
    \/ \E u \in UuidPool : Download(u, ChaName)

SpecCreateRace == Init /\ [][NextCreateRace]_vars

(***************************************************************************)
(* Destroying a workspace whose entry under the root was replaced.  A       *)
(* command launched in a workspace runs with the rights of the service and  *)
(* with the workspace as its working directory: it can remove the           *)
(* workspace's directory and put a symbolic link in its place, leading      *)
(* outside the root, to a directory whose path starts with the root's, or   *)
(* to another workspace.                                                    *)
(***************************************************************************)
ReplaceTargets(uid) == {OutsideDir, RootSibling} \cup {Join(WORK_DIR, v) : v \in UuidPool \ {uid}}

ReplaceWorkspace(uid, target) ==
    /\ running[uid] > 0
    /\ NodeAt(fs, Join(WORK_DIR, uid)).kind = "dir"
    /\ LET linked == WithNode(RemoveTree(fs, Join(WORK_DIR, uid)),
                              Join(WORK_DIR, uid), Symlink(target))
       IN  fs' = IF target = RootSibling
                 THEN WithNode(WithNode(linked, RootSibling, Dir),
                               RootSiblingFile, RegularFile(ForeignText, FALSE))
                 ELSE linked
    /\ UNCHANGED <<running, last, ever, outstanding, uploaded, vin, vout, creating>>

NextDestroy ==
    \/ \E u \in UuidPool : Upload(ChaName, PlainText, u, TRUE)
    \/ \E u \in UuidPool : Execute(Request(u, Freq, <<ChaName>>))
    \/ \E u \in UuidPool : ExecuteReturn(u, FALSE)
    \/ \E u \in UuidPool : \E t \in ReplaceTargets(u) : ReplaceWorkspace(u, t)
    \/ \E id \in IdInputs : Cleanup(id)

SpecDestroy == Init /\ [][NextDestroy]_vars

(***************************************************************************)
(* The claims.                                                             *)
(***************************************************************************)
\* C1: for every identifier string that is not a canonical hyphenated UUID
\* (the 32-digit form without hyphens among them), execute, list, read and
\* destroy each answer with a validation error (400 or 422) and make no
\* filesystem call before answering.
C1_NonCanonicalIdRejectedUntouched ==
    "identifier not canonical" \in last.notes =>
        (last.status \in {400, 422} /\ "filesystem touched" \notin last.notes)

\* C2: once an upload of content C under a valid filename has succeeded, a
\* read of that filename from the workspace, nothing having run in it since,
\* succeeds and returns text whose bytes are exactly C.
C2_RoundTripByteIdentical ==
    \A u \in UuidPool :
        uploaded[u] # NoUpload =>
            LET o == DownloadOutcome(fs, u, uploaded[u].filename)
            IN  /\ o.status = 200
                /\ Utf8Encode(o.body.content.text) = uploaded[u].content.data
                /\ o.body.content.pad = uploaded[u].content.pad

\* C3: a read never answers with content of a file whose resolved path lies
\* outside the directory of the workspace it was asked in.
C3_ReadNeverReturnsForeignContent ==
    (last.op = "download" /\ last.status = 200) =>
        "content from outside workspace" \notin last.notes

\* C4: no execute launches a binary with an argument that names a workspace
\* entry resolving, through symbolic links, outside the workspace directory.
C4_LaunchArgumentsStayInWorkspace ==
    (last.op = "execute" /\ last.status = 0) =>
        "argument outside workspace" \notin last.notes

\* C5: when an execute call answers TimedOut (408), neither the child nor any
\* process the child started is still running.
C5_TimeoutLeavesNoProcess ==
    (last.op = "execute" /\ last.status = 408) => last.notes = {}

\* the workspace of an identifier was never created, or has been destroyed
Nonexistent(unique_id) == unique_id \notin UuidPool \/ outstanding[unique_id] = 0

\* an answer of NotFound that leaves the filesystem as it was
NotFoundUnchanged(o) == o.status = 404 /\ o.fs = fs

\* C6: destroys of an identifier succeed at most as often as creates of it
\* did, and a destroy of a valid identifier whose workspace was never created
\* or is already destroyed answers NotFound and changes nothing.
C6_DestroyIdempotent ==
    /\ \A u \in UuidPool : outstanding[u] >= 0
    /\ \A id \in IdInputs :
           (UUID(id) /\ Nonexistent(id)) => NotFoundUnchanged(CleanupOutcome(fs, id))

\* a second destroy of a destroyed workspace has answered NotFound
C6_SecondDestroySeen ==
    last = Event("cleanup", 404, {"already destroyed", "filesystem touched"})

\* C7: for a valid identifier whose workspace is nonexistent, execute (valid
\* binary name and arguments, the binary present or not), list, read (valid
\* filename) and destroy each answer NotFound, and none creates the workspace.
C7_NonexistentWorkspaceNotFound ==
    \A id \in IdInputs :
        (UUID(id) /\ Nonexistent(id)) =>
            /\ \A b \in {Freq, Nope}, a \in {<<>>, <<ChaName>>} :
                   NotFoundUnchanged(ExecuteOutcome(fs, Request(id, b, a)))
            /\ NotFoundUnchanged(ListOutcome(fs, id))
            /\ \A f \in {ChaName, TxtName, LinkName} :
                   NotFoundUnchanged(DownloadOutcome(fs, id, f))
            /\ NotFoundUnchanged(CleanupOutcome(fs, id))

\* a listing of a destroyed workspace has answered NotFound
C7_ListOfDestroyedSeen ==
    last = Event("list", 404, {"already destroyed", "filesystem touched"})

\* C8: every launch runs a program whose resolved path lies inside the
\* binaries directory.
C8_LaunchedProgramInsideBinaries ==
    (last.op = "execute" /\ last.status = 0) =>
        "program outside binaries" \notin last.notes

\* an argument the specification forbids: one of ; & | ` $ LF CR in it, a
\* leading "/", or ".." in it
ForbiddenArgument(a) ==
    \/ \E i \in 1..Len(a) : a[i] \in {";", "&", "|", Backtick, "$", "\n", "\r"}
    \/ (a # <<>> /\ a[1] = "/")
    \/ \E i \in 1..(Len(a) - 1) : a[i] = "." /\ a[i + 1] = "."

\* C9: an argument list with a forbidden element anywhere in it is rejected
\* by validate_args, and a request carrying it fails validation (422).
C9_ForbiddenArgumentRejectsList ==
    (vin.kind = "args" /\ vout # Unset) =>
        ((\E k \in 1..Len(vin.value) : ForbiddenArgument(vin.value[k])) =>
            (~vout.accepted /\ vout.status = 422))

\* a list rejected for its middle element alone
C9_RejectedForMiddleSeen ==
    /\ vin.kind = "args"
    /\ vout # Unset
    /\ Len(vin.value) = 3
    /\ ~ForbiddenArgument(vin.value[1])
    /\ ForbiddenArgument(vin.value[2])
    /\ ~ForbiddenArgument(vin.value[3])
    /\ vout.status = 422

\* C10: both filename checks reject a name with "..", "/" or "\" in it; the
\* read path accepts exactly what validate_filename accepts once its
\* extension requirement is dropped; so what upload accepts, read accepts.
C10_FilenameChecksAgree ==
    (vin.kind = "filename" /\ vout # Unset) =>
        /\ (\/ Contains(vin.value, <<".", ".">>)
            \/ Contains(vin.value, <<"/">>)
            \/ Contains(vin.value, <<"\\">>)) => (~vout.upload /\ ~vout.read)
        /\ vout.read <=> ValidateFilenameExt(vin.value, <<>>)
        /\ vout.upload => vout.read

\* a name both paths accept, and a name with ".." both reject
C10_AcceptedByBothSeen == vin.kind = "filename" /\ vout # Unset /\ vout.upload /\ vout.read


\* an answer given with nothing launched, nothing changed and no filesystem call
RejectedBeforeTouch(o) == o.status \in {400, 422} /\ o.fs = fs /\ ~o.touched

\* C11: an upload whose filename, size or content encoding fails its check
\* creates no directory and writes no file; an execute whose identifier,
\* binary name or arguments fail validation launches nothing; either leaves
\* the workspaces and their contents as they were.
C11_RejectBeforeTouch ==
    /\ \A f \in {ChaName, TxtName, LinkName, UpLevel}, c \in {PlainText, NotUtf8, TooLarge},
          u \in UuidPool, ok \in BOOLEAN :
           (\/ ~validate_filename(Chars(f))
            \/ ContentLen(c) > MAX_FILE_SIZE
            \/ Utf8Decode(c.data) = DecodeError)
               => RejectedBeforeTouch(UploadOutcome(fs, f, c, u, ok))
    /\ \A r \in ExecuteRequests :
           (\/ ~UUID(r.unique_id)
            \/ ~validate_binary(Chars(r.binary))
            \/ ~validate_args([k \in 1..Len(r.args) |-> Chars(r.args[k])]))
               => RejectedBeforeTouch(ExecuteOutcome(fs, r))

\* an upload has been turned down while a workspace with a file in it exists
C11_RejectedUploadSeen ==
    /\ last = Event("upload", 400, {})
    /\ \E u \in UuidPool : uploaded[u] # NoUpload

\* the workspaces that exist: the entries of the workspace root
Workspaces(fsys) == DirEntries(fsys, WORK_DIR)

C13_CollidingCreateFailsUnchanged ==
    /\ \A u \in UuidPool, ok \in BOOLEAN :
           NodeAt(fs, Join(WORK_DIR, u)).kind # "absent" =>
               LET m == UploadMkdirOutcome(fs, ChaName, PlainText, u)
                   o == UploadOutcome(fs, ChaName, PlainText, u, ok)
               IN  /\ m.status = 500 /\ m.fs = fs
                   /\ o.status = 500 /\ o.fs = fs
    /\ "identifier in use" \in last.notes => last.status = 500

\* a create has collided with the directory of a create still under way
C13_CollisionWithCreateUnderWaySeen ==
    /\ last = Event("upload", 500, {"identifier in use"})
    /\ \E c \in Creators :
           /\ creating[c] # NotCreating
           /\ NodeAt(fs, Join(WORK_DIR, creating[c].uid)).kind = "dir"

\* C14: while an execute call waits on its child, another request can start
\* and complete without waiting for it: a server process is free to run the
\* request's handler.
C14_OtherRequestsCanStart ==
    (\E u \in UuidPool : running[u] > 0) => SomeWorkerFree

\* the identifiers whose workspace exists
ExistingWorkspaces(fsys) ==
    {u \in IdInputs : NodeAt(fsys, Join(WORK_DIR, u)).kind # "absent"}

\* C15: a step changes the set of existing workspaces only as a successful
\* upload, which adds one, or as a successful cleanup, which removes one; no
\* step of execute (launch, result, timeout, failure), list, read or the
\* listing of binaries changes it.
C15_OnlyCreateAndDestroyChangeWorkspaces ==
    [][ExistingWorkspaces(fs') # ExistingWorkspaces(fs) =>
           \/ /\ last' = Event("upload", 200, {})
              /\ ExistingWorkspaces(fs) \subseteq ExistingWorkspaces(fs')
           \/ /\ last'.op = "cleanup" /\ last'.status = 200
              /\ ExistingWorkspaces(fs') \subseteq ExistingWorkspaces(fs)]_vars

\* a workspace exists after an execute in it has timed out
C15_ActiveAfterTimeoutSeen ==
    /\ last.op = "execute" /\ last.status = 408
    /\ \E u \in UuidPool : outstanding[u] = 1 /\ u \in ExistingWorkspaces(fs)

\* C16: once an upload of content C under filename f has succeeded, and no
\* execute has run in the workspace, its listing has exactly one entry: name
\* f, type file, size the number of bytes of C.
C16_ListAfterCreate ==
    \A u \in UuidPool :
        uploaded[u] # NoUpload =>
            LET o == ListOutcome(fs, u)
            IN  /\ o.status = 200
                /\ o.body.files =
                       {[name |-> uploaded[u].filename,
                         size |-> Len(uploaded[u].content.data) + uploaded[u].content.pad,
                         type |-> "file"]}

\* a workspace holding a two-byte character has been listed
C16_ListedAfterCreateSeen ==
    /\ last.op = "list" /\ last.status = 200
    /\ uploaded[U1] # NoUpload
    /\ uploaded[U1].content.data = <<195, 169>>

\* C17: destroy changes the filesystem only when the workspace's path resolves
\* to a location under the resolved root, and then removes exactly the
\* workspace's own directory tree; when the path resolves outside the root
\* (the entry was replaced by a link that leads elsewhere) nothing is deleted
ResolvesUnderRoot(fsys, unique_id) ==
    /\ Resolve(fsys, Join(WORK_DIR, unique_id)) # LoopError
    /\ Inside(Resolve(fsys, WORK_DIR), Resolve(fsys, Join(WORK_DIR, unique_id)))

C17_DestroyStaysUnderRoot ==
    \A id \in IdInputs :
        LET o == CleanupOutcome(fs, id)
        IN  /\ o.fs # fs => /\ ResolvesUnderRoot(fs, id)
                            /\ NodeAt(fs, Join(WORK_DIR, id)).kind = "dir"
                            /\ o.fs = RemoveTree(fs, Join(WORK_DIR, id))
            /\ ~ResolvesUnderRoot(fs, id) => o.fs = fs

C17_ReplacedWorkspaceKeptSeen ==
    /\ last.op = "cleanup"
    /\ last.status = 500
    /\ \E u \in UuidPool :
           /\ NodeAt(fs, Join(WORK_DIR, u)).kind = "link"
           /\ ~ResolvesUnderRoot(fs, u)
           /\ NodeAt(fs, OutsideFile).kind = "file"

\* C19: when the containment check of destroy fails, the answer is 403
C19_ContainmentFailureIsForbidden ==
    (last.op = "cleanup" /\ "containment check failed" \in last.notes)
        => last.status = 403

\* C18: nothing holds a destroy back while a command launched in the same
\* workspace is still running: at every moment at which a child runs in a
\* workspace whose directory stands, destroy of that workspace answers 200 and
\* removes the directory, so the child is left running in a workspace that no
\* longer exists
C18_DestroySucceedsUnderRunningCommand ==
    \A u \in UuidPool :
        (running[u] > 0 /\ NodeAt(fs, Join(WORK_DIR, u)).kind = "dir")
            => LET o == CleanupOutcome(fs, u)
               IN  /\ o.status = 200
                   /\ NodeAt(o.fs, Join(WORK_DIR, u)).kind = "absent"

C18_RunningInDestroyedWorkspaceSeen ==
    /\ last = Event("cleanup", 200, {"active", "filesystem touched"})
    /\ \E u \in UuidPool :
           /\ running[u] > 0
           /\ NodeAt(fs, Join(WORK_DIR, u)).kind = "absent"

\* C20: for every entry of the binaries directory and every active workspace,
\* the entry's name is returned by the listing of binaries exactly when an
\* execute of that name in the workspace passes every check and launches it
C20_ListedExactlyWhenLaunched ==
    \A u \in UuidPool :
        NodeAt(fs, Join(WORK_DIR, u)).kind = "dir" =>
            \A n \in DirEntries(fs, BIN_DIR) :
                n \in ListBinariesOutcome(fs).body.binaries
                    <=> ExecuteOutcome(fs, Request(u, n, <<>>)).status = 0

=============================================================================
